---- MODULE Spec2Model ----
(***************************************************************************)
(* Model of the quote-generation core of bybit-smm:                        *)
(*   smm/strategy/marketmaker.py      TradingLogic (warm-up, loader, loop) *)
(*   smm/quote_generators/plain.py    PlainQuoteGenerator                  *)
(*                                                                         *)
(* Floats are modelled in fixed point: the integer k stands for the real   *)
(* k / SCALE, products and quotients are rounded toward minus infinity.    *)
(* A non-finite float is the value NaN; every arithmetic operator          *)
(* propagates it and every comparison with it is false, as IEEE 754 does.  *)
(***************************************************************************)
EXTENDS Integers, Sequences, FiniteSets, TLC

VARIABLES
    pc,               \* position of start_loop: warmup, load, sleep, sleeping, updating, faulted;
                      \* "pure" / "returned" before / after a direct call of a generator method
    data,             \* ss.data: sizes of trades / ohlcv / ticker, tick_size, lot_size
    quote_generator,  \* ss.quote_generator, the configured name (a sequence of characters)
    params,           \* strategy parameters: total_orders, aggressiveness, minimum_spread, max_position
    loaded,           \* self.quote_generator: "none", "plain" or "stinky"
    error,            \* the exception start_loop ended with ("none" while it runs)
    warm,             \* the data the last warm-up poll looked at when it broke out of the loop
    tickNo,           \* number of ticks started (sleeps of the running loop begun)
    signal,           \* fp_skew, vol and the market snapshot read by the current tick
    new_orders,       \* the ladder built by the current tick: [tick, status, quotes]
    oms,              \* order-management system: number of updates, the ladder last received
    steps,            \* the calls the current tick has made, in order
    call              \* the last direct call of a PlainQuoteGenerator method and its result

vars == <<pc, data, quote_generator, params, loaded, error, warm, tickNo,
          signal, new_orders, oms, steps, call>>

---------------------------------------------------------------------------
(* Bounds of the model *)

MaxOrders == 5      \* total_orders ranges over 0..MaxOrders
MaxTicks == 2       \* ticks of the running loop that are explored
PowBits == 4        \* binary digits of a fractional exponent that FPow honours

---------------------------------------------------------------------------
(* Fixed-point arithmetic *)

SCALE == 10 * 10
NaN == 0 - (SCALE * SCALE * SCALE * SCALE)

IsNaN(x) == x = NaN
Max(a, b) == IF a >= b THEN a ELSE b
Min(a, b) == IF a <= b THEN a ELSE b
Abs(a) == IF a < 0 THEN 0 - a ELSE a

FAdd(a, b) == IF IsNaN(a) \/ IsNaN(b) THEN NaN ELSE a + b
FSub(a, b) == IF IsNaN(a) \/ IsNaN(b) THEN NaN ELSE a - b
FMul(a, b) == IF IsNaN(a) \/ IsNaN(b) THEN NaN ELSE (a * b) \div SCALE
FDiv(a, b) == IF IsNaN(a) \/ IsNaN(b) \/ b = 0 THEN NaN ELSE (a * SCALE) \div b
FLt(a, b) == ~IsNaN(a) /\ ~IsNaN(b) /\ a < b
FGt(a, b) == ~IsNaN(a) /\ ~IsNaN(b) /\ a > b
FLe(a, b) == ~IsNaN(a) /\ ~IsNaN(b) /\ a <= b

RECURSIVE IPow(_, _)
IPow(x, k) == IF k = 0 THEN 1 ELSE x * IPow(x, k - 1)

\* the largest r in lo..hi with r^k <= x
RECURSIVE RootBis(_, _, _, _)
RootBis(x, k, lo, hi) ==
    IF lo >= hi THEN lo
    ELSE LET m == (lo + hi + 1) \div 2
         IN  IF IPow(m, k) <= x THEN RootBis(x, k, m, hi) ELSE RootBis(x, k, lo, m - 1)

\* x ** 0.5 on a finite non-negative x
FSqrt(x) ==
    IF IsNaN(x) \/ x < 0 THEN NaN
    ELSE RootBis(x * SCALE, 2, 0, Max(x, SCALE))

RECURSIVE FPowInt(_, _)
FPowInt(x, k) == IF k = 0 THEN SCALE ELSE FMul(x, FPowInt(x, k - 1))

\* x ** (f / SCALE) for 0 <= f < SCALE, by the binary digits of f / SCALE
RECURSIVE FracPow(_, _, _)
FracPow(x, f, bits) ==
    IF bits = 0 \/ f = 0 THEN SCALE
    ELSE LET rt == FSqrt(x)
         IN  IF 2 * f >= SCALE
             THEN FMul(rt, FracPow(rt, 2 * f - SCALE, bits - 1))
             ELSE FracPow(rt, 2 * f, bits - 1)

\* x ** e for a finite x >= 0 and a finite e >= 0
FPow(x, e) ==
    IF IsNaN(x) \/ IsNaN(e) \/ x < 0 \/ e < 0 THEN NaN
    ELSE FMul(FPowInt(x, e \div SCALE), FracPow(x, e % SCALE, PowBits))

---------------------------------------------------------------------------
(* frameworks.tools and the QuoteGenerator base class *)

\* nbclip(val, min, max): numpy's clip, minimum(maximum(val, min), max)
nbclip(val, lo, hi) ==
    IF IsNaN(val) \/ IsNaN(lo) \/ IsNaN(hi) THEN NaN ELSE Min(Max(val, lo), hi)

\* nbgeomspace is defined on endpoints of one sign, neither of them zero
GeomDefined(start, end) ==
    /\ ~IsNaN(start) /\ ~IsNaN(end)
    /\ \/ (start > 0 /\ end > 0)
       \/ (start < 0 /\ end < 0)

\* nbgeomspace(start, end, n): n points from start to end, evenly spaced on a log scale
nbgeomspace(start, end, n) ==
    IF ~GeomDefined(start, end) THEN [i \in 1..n |-> NaN]
    ELSE IF n = 1 THEN <<start>>
    ELSE LET sgn == IF start > 0 THEN 1 ELSE 0 - 1
             a == Abs(start)
             b == Abs(end)
         IN  [i \in 1..n |->
                sgn * RootBis(IPow(a, n - i) * IPow(b, i - 1), n - 1, Min(a, b), Max(a, b))]

\* round_floor(num, step_size) / round_ceil(num, step_size); a zero step divides by zero
round_floor(num, step_size) ==
    IF IsNaN(num) \/ IsNaN(step_size) \/ step_size = 0 THEN NaN
    ELSE (num \div step_size) * step_size

round_ceil(num, step_size) ==
    IF IsNaN(num) \/ IsNaN(step_size) \/ step_size = 0 THEN NaN
    ELSE (0 - ((0 - num) \div step_size)) * step_size

Reverse(s) == [i \in 1..Len(s) |-> s[Len(s) + 1 - i]]

RECURSIVE SumSeq(_, _)
SumSeq(s, n) == IF n = 0 THEN 0 ELSE FAdd(s[n], SumSeq(s, n - 1))

\* generate_geometric_weights(num, r, reverse): weights in geometric progression of
\* ratio r, normalised to sum 1; reversed, the first level carries the weight r^0
generate_geometric_weights(num, r, reverse) ==
    LET raw == [i \in 1..num |-> FPowInt(r, num - i)]
        total == SumSeq(raw, num)
        normalized == [i \in 1..num |-> FDiv(raw[i], total)]
    IN  IF reverse THEN Reverse(normalized) ELSE normalized

\* QuoteGenerator.bps_to_decimal
bps_to_decimal(bps) == IF IsNaN(bps) THEN NaN ELSE (bps * SCALE) \div 10000

Bid == 0
Ask == 1
Limit == 0

\* QuoteGenerator.generate_single_quote
generate_single_quote(side, orderType, price, size) ==
    [side |-> side, orderType |-> orderType, price |-> price, size |-> size]

---------------------------------------------------------------------------
(* PlainQuoteGenerator.  g is the generator's view of the shared state:     *)
(* [mid, inventory_delta, tick_size, lot_size, total_orders, max_position, *)
(*  aggressiveness, minimum_spread].                                       *)
(* Raising a negative float to a fractional power, a geometric space over  *)
(* endpoints of mixed sign and a division by a zero step are not defined   *)
(* as real numbers: depending on the numeric types in play the build       *)
(* either raises or carries a NaN on.  nd names which of the two happens.  *)

NonRealModes == {"nan", "raise"}

Raised == [status |-> "raised", quotes |-> <<>>]
Returned(quotes) == [status |-> "ok", quotes |-> quotes]
ReturnedNone == [status |-> "none", quotes |-> <<>>]

\* x ** e with a fractional e leaves the reals when x < 0
NonRealPow(x) == ~IsNaN(x) /\ x < 0

corrected_skew(skew, g) ==
    LET corrective_amount == FMul(g.inventory_delta, g.inventory_delta)
    IN  IF FLt(g.inventory_delta, 0)
        THEN FAdd(skew, corrective_amount)
        ELSE FSub(skew, corrective_amount)

\* corrected_spread without the cap at five times the minimum
corrected_spread_uncapped(spread, g) ==
    LET min_spread == bps_to_decimal(g.minimum_spread)
    IN  IF FLt(spread, min_spread) THEN min_spread ELSE spread

corrected_spread(spread, g) ==
    LET min_spread == bps_to_decimal(g.minimum_spread)
    IN  IF FLt(spread, min_spread)
        THEN min_spread
        ELSE nbclip(spread, spread, min_spread * 5)

\* prepare_orders appending the ask of a level before its bid
prepare_orders_ask_first(bid_prices, bid_sizes, ask_prices, ask_sizes, g) ==
    LET n == Min(Min(Len(bid_prices), Len(bid_sizes)), Min(Len(ask_prices), Len(ask_sizes)))
        bid(k) == generate_single_quote(Bid, Limit,
                      round_floor(bid_prices[k], g.tick_size),
                      round_ceil(bid_sizes[k], g.lot_size))
        ask(k) == generate_single_quote(Ask, Limit,
                      round_ceil(ask_prices[k], g.tick_size),
                      round_ceil(ask_sizes[k], g.lot_size))
    IN  [j \in 1..(2 * n) |-> IF j % 2 = 1 THEN ask((j + 1) \div 2) ELSE bid(j \div 2)]

prepare_orders(bid_prices, bid_sizes, ask_prices, ask_sizes, g) ==
    LET n == Min(Min(Len(bid_prices), Len(bid_sizes)), Min(Len(ask_prices), Len(ask_sizes)))
        bid(k) == generate_single_quote(Bid, Limit,
                      round_floor(bid_prices[k], g.tick_size),
                      round_ceil(bid_sizes[k], g.lot_size))
        ask(k) == generate_single_quote(Ask, Limit,
                      round_ceil(ask_prices[k], g.tick_size),
                      round_ceil(ask_sizes[k], g.lot_size))
    IN  [j \in 1..(2 * n) |-> IF j % 2 = 1 THEN bid((j + 1) \div 2) ELSE ask(j \div 2)]

\* the base of the square root that scales the aggressiveness (skew ** 0.5)
sqrt_radicand(skew) == skew

\* the ratio without the clip of the skew
clipped_ratio_unclipped(skew) == FAdd(SCALE \div 2, skew)

\* clipped_r = 0.5 + nbclip(skew, 0.0, 0.5)
clipped_ratio(skew) == FAdd(SCALE \div 2, nbclip(skew, 0, SCALE \div 2))

\* the four arrays generate_positive_skew_quotes hands to prepare_orders
positive_skew_arrays(skew, spread, g) ==
    LET half_spread == FDiv(spread, 2 * SCALE)
        aggressiveness == FMul(g.aggressiveness, FSqrt(sqrt_radicand(skew)))
        best_bid_price == FSub(g.mid, FMul(half_spread, FSub(SCALE, aggressiveness)))
        best_ask_price == FAdd(best_bid_price, spread)
        reach == FPow(spread, SCALE + SCALE \div 2)
        n == g.total_orders \div 2
        clipped_r == clipped_ratio(skew)
    IN  [ aggressiveness |-> aggressiveness,
          best_bid_price |-> best_bid_price,
          best_ask_price |-> best_ask_price,
          bid_prices |-> nbgeomspace(best_bid_price, FSub(best_bid_price, reach), n),
          ask_prices |-> nbgeomspace(best_ask_price, FAdd(best_ask_price, reach), n),
          bid_sizes |-> [i \in 1..n |->
              FMul(g.max_position, generate_geometric_weights(n, clipped_r, TRUE)[i])],
          ask_sizes |-> [i \in 1..n |->
              FMul(g.max_position, generate_geometric_weights(n,
                  FAdd(SCALE \div 2, FPow(clipped_r, FAdd(2 * SCALE, aggressiveness))), TRUE)[i])],
          undefined |->
              \/ NonRealPow(sqrt_radicand(skew))
              \/ NonRealPow(spread)
              \/ ~GeomDefined(best_bid_price, FSub(best_bid_price, reach))
              \/ ~GeomDefined(best_ask_price, FAdd(best_ask_price, reach))
              \/ (n > 0 /\ (g.tick_size = 0 \/ g.lot_size = 0)) ]

\* the four arrays generate_negative_skew_quotes hands to prepare_orders
negative_skew_arrays(skew, spread, g) ==
    LET half_spread == FDiv(spread, 2 * SCALE)
        aggressiveness == FMul(g.aggressiveness, FSqrt(sqrt_radicand(skew)))
        best_ask_price == FAdd(g.mid, FMul(half_spread, FSub(SCALE, aggressiveness)))
        best_bid_price == FSub(best_ask_price, spread)
        reach == FPow(spread, SCALE + SCALE \div 2)
        n == g.total_orders \div 2
        clipped_r == clipped_ratio(skew)
    IN  [ aggressiveness |-> aggressiveness,
          best_bid_price |-> best_bid_price,
          best_ask_price |-> best_ask_price,
          bid_prices |-> nbgeomspace(best_bid_price, FSub(best_bid_price, reach), n),
          ask_prices |-> nbgeomspace(best_ask_price, FAdd(best_ask_price, reach), n),
          bid_sizes |-> [i \in 1..n |->
              FMul(g.max_position, generate_geometric_weights(n,
                  FAdd(SCALE \div 2, FPow(clipped_r, FAdd(2 * SCALE, aggressiveness))), TRUE)[i])],
          ask_sizes |-> [i \in 1..n |->
              FMul(g.max_position, generate_geometric_weights(n, clipped_r, TRUE)[i])],
          undefined |->
              \/ NonRealPow(sqrt_radicand(skew))
              \/ NonRealPow(spread)
              \/ ~GeomDefined(best_bid_price, FSub(best_bid_price, reach))
              \/ ~GeomDefined(best_ask_price, FAdd(best_ask_price, reach))
              \/ (n > 0 /\ (g.tick_size = 0 \/ g.lot_size = 0)) ]

generate_positive_skew_quotes(skew, spread, g, nd) ==
    LET a == positive_skew_arrays(skew, spread, g)
    IN  IF a.undefined /\ nd = "raise" THEN Raised
        ELSE Returned(prepare_orders(a.bid_prices, a.bid_sizes, a.ask_prices, a.ask_sizes, g))

generate_negative_skew_quotes(skew, spread, g, nd) ==
    LET a == negative_skew_arrays(skew, spread, g)
    IN  IF a.undefined /\ nd = "raise" THEN Raised
        ELSE Returned(prepare_orders(a.bid_prices, a.bid_sizes, a.ask_prices, a.ask_sizes, g))

\* which branch generate_quotes dispatches to
branch_of(skew) ==
    IF FGt(skew, 0) THEN "positive" ELSE IF FLe(skew, 0) THEN "negative" ELSE "none"

generate_quotes(skew, spread, g, nd) ==
    IF FGt(skew, 0) THEN generate_positive_skew_quotes(skew, spread, g, nd)
    ELSE IF FLe(skew, 0) THEN generate_negative_skew_quotes(skew, spread, g, nd)
    ELSE ReturnedNone

---------------------------------------------------------------------------
(* TradingLogic: the strategy loop *)

Uppers == <<"A","B","C","D","E","F","G","H","I","J","K","L","M",
            "N","O","P","Q","R","S","T","U","V","W","X","Y","Z">>
Lowers == <<"a","b","c","d","e","f","g","h","i","j","k","l","m",
            "n","o","p","q","r","s","t","u","v","w","x","y","z">>

\* str.lower(), character by character
LowerChar(c) ==
    IF \E i \in 1..Len(Uppers) : Uppers[i] = c
    THEN Lowers[CHOOSE i \in 1..Len(Uppers) : Uppers[i] = c]
    ELSE c
lower(name) == [i \in 1..Len(name) |-> LowerChar(name[i])]

plain == <<"p","l","a","i","n">>
stinky == <<"s","t","i","n","k","y">>

\* the names the session may be configured with
Names == { plain, <<"P","L","A","I","N">>, <<"S","t","i","n","k","y">>,
           <<"p","l","a","i","n","s">>, <<"s","i","m","p","l","e">> }

\* QuoteGenerator.__init__: total_orders has to be even and at least 2
QuoteGenerator_init(p) ==
    IF p.total_orders % 2 = 0 /\ p.total_orders >= 2 THEN "ok" ELSE "ConfigurationError"

\* a constructor that does not run the base class constructor
PlainQuoteGenerator_init_unchecked(p) == "ok"

\* PlainQuoteGenerator.__init__: self.ss = ss; super().__init__(self.ss)
PlainQuoteGenerator_init(p) == QuoteGenerator_init(p)

\* StinkyQuoteGenerator.__init__
StinkyQuoteGenerator_init(p) == QuoteGenerator_init(p)

\* a loader that falls back to the plain generator on an unknown name
load_quote_generator_fallback(name, p) ==
    LET quote_gen_name == lower(name)
    IN  IF quote_gen_name = stinky
        THEN [kind |-> "stinky", error |-> StinkyQuoteGenerator_init(p)]
        ELSE [kind |-> "plain", error |-> PlainQuoteGenerator_init(p)]

\* load_quote_generator: the generator constructed, or the exception raised
load_quote_generator(name, p) ==
    LET quote_gen_name == lower(name)
    IN  IF quote_gen_name = plain
        THEN [kind |-> "plain", error |-> PlainQuoteGenerator_init(p)]
        ELSE IF quote_gen_name = stinky
        THEN [kind |-> "stinky", error |-> StinkyQuoteGenerator_init(p)]
        ELSE [kind |-> "none", error |-> "ValueError"]

\* one pass of the checks in wait_for_ws_warmup: TRUE when the loop breaks
warmup_ready(d) ==
    /\ ~(d.trades < 100)
    /\ ~(d.ohlcv < 100)
    /\ ~(d.ticker = 0)
    /\ ~(<<d.tick_size, d.lot_size>> = <<0, 0>>)

\* the generator's properties, read from the shared state when it is invoked
view(p, d, mid, inventory_delta) ==
    [ mid |-> mid, inventory_delta |-> inventory_delta,
      tick_size |-> d.tick_size, lot_size |-> d.lot_size,
      total_orders |-> p.total_orders, max_position |-> p.max_position,
      aggressiveness |-> p.aggressiveness, minimum_spread |-> p.minimum_spread ]

\* QuoteGenerator.generate_orders: correct the skew and the spread, then build the ladder
generate_orders(kind, fp_skew, vol, g, nd) ==
    IF kind = "plain"
    THEN generate_quotes(corrected_skew(fp_skew, g), corrected_spread(vol, g), g, nd)
    ELSE Returned(<<>>)

\* the calls of one tick, in program order
TickCalls == <<"sleep", "generate_skew", "generate_vol", "generate_orders", "update_simple">>

NoSignal == [fp_skew |-> 0, vol |-> 0, mid |-> 0, inventory_delta |-> 0]
NoOrders == [tick |-> 0, status |-> "unset", quotes |-> <<>>]
NoCall == [fn |-> "none"]

\* what the data feed may have written by the time of a poll
TradeCounts == {0, 99, 100}
OhlcvCounts == {0, 99, 100}
TickerCounts == {0, 1}
TickSizes == {0, 1, 5}
LotSizes == {0, 10}

\* what the feature engine and the market snapshot may hold at a tick
FeatureSkews == {0 - 150, 0 - 25, 0, 25, 64, 100, NaN}
FeatureVols == {0 - 40, 0, 40, 100, 400, NaN}
Mids == {1000}
InventoryDeltas == {0 - 50, 0, 50}

LoopParams ==
    [ total_orders : 0..MaxOrders, aggressiveness : {50, 200},
      minimum_spread : {4000}, max_position : {1000} ]

Init ==
    /\ pc = "warmup"
    /\ data = [trades |-> 0, ohlcv |-> 0, ticker |-> 0, tick_size |-> 0, lot_size |-> 0]
    /\ quote_generator \in Names
    /\ params \in LoopParams
    /\ loaded = "none"
    /\ error = "none"
    /\ warm = <<>>
    /\ tickNo = 0
    /\ signal = NoSignal
    /\ new_orders = NoOrders
    /\ oms = [updates |-> 0, busy |-> FALSE, received |-> NoOrders]
    /\ steps = <<>>
    /\ call = NoCall

\* the data feed fills the shared state while the loop is suspended in the warm-up sleep
DataFeed ==
    /\ pc = "warmup"
    /\ \E d \in [trades : TradeCounts, ohlcv : OhlcvCounts, ticker : TickerCounts,
                 tick_size : TickSizes, lot_size : LotSizes] :
          /\ d # data
          /\ \/ d.trades # data.trades /\ d = [data EXCEPT !.trades = d.trades]
             \/ d.ohlcv # data.ohlcv /\ d = [data EXCEPT !.ohlcv = d.ohlcv]
             \/ d.ticker # data.ticker /\ d = [data EXCEPT !.ticker = d.ticker]
             \/ d = [data EXCEPT !.tick_size = d.tick_size, !.lot_size = d.lot_size]
          /\ data' = d
    /\ UNCHANGED <<pc, quote_generator, params, loaded, error, warm, tickNo,
                   signal, new_orders, oms, steps, call>>

\* wait_for_ws_warmup: one sleep and one pass of the checks
WarmupPoll ==
    /\ pc = "warmup"
    /\ IF warmup_ready(data)
       THEN pc' = "load" /\ warm' = <<data>>
       ELSE UNCHANGED <<pc, warm>>
    /\ UNCHANGED <<data, quote_generator, params, loaded, error, tickNo,
                   signal, new_orders, oms, steps, call>>

\* start_loop: self.quote_generator = await self.load_quote_generator()
LoadQuoteGenerator ==
    /\ pc = "load"
    /\ LET r == load_quote_generator(quote_generator, params)
       IN  IF r.error = "ok"
           THEN loaded' = r.kind /\ pc' = "sleep" /\ error' = error
           ELSE loaded' = loaded /\ pc' = "faulted" /\ error' = r.error
    /\ UNCHANGED <<data, quote_generator, params, warm, tickNo,
                   signal, new_orders, oms, steps, call>>

\* while True: await asyncio.sleep(1.0) -- the tick starts and suspends in the sleep
TickSleep ==
    /\ pc = "sleep"
    /\ tickNo < MaxTicks
    /\ tickNo' = tickNo + 1
    /\ steps' = <<"sleep">>
    /\ pc' = "sleeping"
    /\ UNCHANGED <<data, quote_generator, params, loaded, error, warm,
                   signal, new_orders, oms, call>>

\* the ladder of the tick before handed over again
ladder_for_oms_stale(fresh, previous) == previous

\* the ladder start_loop passes to update_simple
ladder_for_oms(fresh, previous) == fresh

\* the sleep is over: generate_skew, generate_vol, generate_orders run without a
\* suspension and update_simple is called with the ladder; an exception ends start_loop
TickCompute ==
    /\ pc = "sleeping"
    /\ \E fp_skew \in FeatureSkews, vol \in FeatureVols, mid \in Mids,
          inventory_delta \in InventoryDeltas, nd \in NonRealModes :
          LET g == view(params, data, mid, inventory_delta)
              r == generate_orders(loaded, fp_skew, vol, g, nd)
              built == [tick |-> tickNo, status |-> r.status, quotes |-> r.quotes]
          IN  /\ signal' = [fp_skew |-> fp_skew, vol |-> vol, mid |-> mid,
                            inventory_delta |-> inventory_delta]
              /\ new_orders' = built
              /\ IF r.status = "raised"
                 THEN /\ pc' = "faulted"
                      /\ error' = "GenerationError"
                      /\ steps' = steps \o SubSeq(TickCalls, 2, 4)
                      /\ oms' = oms
                 ELSE /\ pc' = "updating"
                      /\ error' = error
                      /\ steps' = steps \o SubSeq(TickCalls, 2, 5)
                      /\ oms' = [oms EXCEPT !.busy = TRUE,
                                            !.received = ladder_for_oms(built, new_orders)]
    /\ UNCHANGED <<data, quote_generator, params, loaded, warm, tickNo, call>>

\* await self.oms.update_simple(new_orders) completes; fp_skew, vol and the ladder are
\* dead from here on (the next tick assigns them before it reads them)
OmsUpdateDone ==
    /\ pc = "updating"
    /\ oms' = [updates |-> oms.updates + 1, busy |-> FALSE,
               received |-> [oms.received EXCEPT !.quotes = <<>>]]
    /\ new_orders' = [new_orders EXCEPT !.quotes = <<>>]
    /\ signal' = NoSignal
    /\ pc' = "sleep"
    /\ UNCHANGED <<data, quote_generator, params, loaded, error, warm, tickNo, steps, call>>

Next ==
    \/ DataFeed
    \/ WarmupPoll
    \/ LoadQuoteGenerator
    \/ TickSleep
    \/ TickCompute
    \/ OmsUpdateDone

Spec == Init /\ [][Next]_vars

---------------------------------------------------------------------------
(* Direct calls of the PlainQuoteGenerator methods, on a generator whose    *)
(* tick and lot sizes are set                                              *)

PureSkews == {0 - 150, 0 - 100, 0 - 25, 0, 25, 50, 64, 100, 150, NaN}
PureSpreads == {0 - 40, 0, 1, 2, 5, 39, 40, 100, 200, 201, 400, NaN}
PureMids == {300, 1000}
PureTickSizes == {1, 5}
PureLotSizes == {1, 10}

QuoteParams ==
    [ total_orders : 0..MaxOrders, aggressiveness : {0, 50, 100, 200},
      minimum_spread : {0, 100, 4000}, max_position : {1000} ]

InitQuotes ==
    /\ pc = "pure"
    /\ data \in [trades : {100}, ohlcv : {100}, ticker : {1},
                 tick_size : PureTickSizes, lot_size : PureLotSizes]
    /\ quote_generator = plain
    /\ params \in QuoteParams
    /\ loaded = "plain"
    /\ error = "none"
    /\ warm = <<>>
    /\ tickNo = 0
    /\ signal = NoSignal
    /\ new_orders = NoOrders
    /\ oms = [updates |-> 0, busy |-> FALSE, received |-> NoOrders]
    /\ steps = <<>>
    /\ call = NoCall

CallCorrectedSkew ==
    /\ pc = "pure"
    /\ \E skew \in PureSkews, inventory_delta \in InventoryDeltas :
          LET g == view(params, data, 1000, inventory_delta)
          IN  call' = [fn |-> "corrected_skew", skew |-> skew, g |-> g,
                       result |-> corrected_skew(skew, g)]
    /\ pc' = "returned"
    /\ UNCHANGED <<data, quote_generator, params, loaded, error, warm, tickNo,
                   signal, new_orders, oms, steps>>

CallCorrectedSpread ==
    /\ pc = "pure"
    /\ \E spread \in PureSpreads :
          LET g == view(params, data, 1000, 0)
          IN  call' = [fn |-> "corrected_spread", spread |-> spread, g |-> g,
                       result |-> corrected_spread(spread, g)]
    /\ pc' = "returned"
    /\ UNCHANGED <<data, quote_generator, params, loaded, error, warm, tickNo,
                   signal, new_orders, oms, steps>>

CallGenerateQuotes ==
    /\ pc = "pure"
    /\ \E skew \in PureSkews, spread \in PureSpreads, mid \in PureMids, nd \in NonRealModes :
          LET g == view(params, data, mid, 0)
              b == branch_of(skew)
          IN  call' = [fn |-> "generate_quotes", skew |-> skew, spread |-> spread, g |-> g,
                       branch |-> b,
                       radicand |-> IF b = "none" THEN NaN ELSE sqrt_radicand(skew),
                       clipped_r |-> IF b = "none" THEN NaN ELSE clipped_ratio(skew),
                       result |-> generate_quotes(skew, spread, g, nd)]
    /\ pc' = "returned"
    /\ UNCHANGED <<data, quote_generator, params, loaded, error, warm, tickNo,
                   signal, new_orders, oms, steps>>

NextQuotes ==
    \/ CallCorrectedSkew
    \/ CallCorrectedSpread
    \/ CallGenerateQuotes

SpecQuotes == InitQuotes /\ [][NextQuotes]_vars

---------------------------------------------------------------------------
(* Properties *)

Finite(x) == ~IsNaN(x)

\* a signal the quote generator is specified for
ValidSignal(skew, spread) ==
    /\ Finite(skew) /\ skew >= 0 - SCALE /\ skew <= SCALE
    /\ Finite(spread) /\ spread > 0

EvenOrders(n) == n % 2 = 0 /\ n >= 2

Registry == {plain, stinky}

IsPrefix(s, t) == Len(s) <= Len(t) /\ s = SubSeq(t, 1, Len(s))

\* the arrays the branch taken by a generate_quotes call handed to prepare_orders
CallArrays ==
    IF call.branch = "positive"
    THEN positive_skew_arrays(call.skew, call.spread, call.g)
    ELSE negative_skew_arrays(call.skew, call.spread, call.g)

GenerateReturned ==
    call.fn = "generate_quotes" /\ call.result.status = "ok"

\* C1 (as claimed): the warm-up is left only on a poll that saw at least 100 trades,
\* at least 100 OHLCV bars, a ticker entry, a non-zero tick_size and a non-zero lot_size.
C1_WarmupSawAllConditions ==
    warm # <<>> =>
        /\ warm[1].trades >= 100
        /\ warm[1].ohlcv >= 100
        /\ warm[1].ticker >= 1
        /\ warm[1].tick_size # 0
        /\ warm[1].lot_size # 0

\* C2: with a configured name outside the registry (compared in lower case) the loader
\* raises, start_loop ends faulted and no tick and no OMS update ever happens.
C2_UnknownNameFaults ==
    (pc \notin {"warmup", "load"} /\ lower(quote_generator) \notin Registry) =>
        /\ pc = "faulted"
        /\ error = "ValueError"
        /\ loaded = "none"
        /\ tickNo = 0
        /\ steps = <<>>
        /\ oms.updates = 0
        /\ ~oms.busy

C2_Witness ==
    /\ pc = "faulted"
    /\ error = "ValueError"
    /\ quote_generator = <<"p","l","a","i","n","s">>

\* C3 (as claimed): a tick whose quote generation fails on an invalid signal (tick and
\* lot sizes being set) is skipped and the loop keeps running.
C3_BadTickIsSkipped ==
    (/\ new_orders.status = "raised"
     /\ new_orders.tick = tickNo
     /\ data.tick_size # 0 /\ data.lot_size # 0
     /\ ~ValidSignal(signal.fp_skew, signal.vol)) =>
        pc \in {"sleep", "sleeping", "updating"}

C6_CorrectedSpread ==
    (call.fn = "corrected_spread" /\ Finite(call.spread)) =>
        LET min_spread == bps_to_decimal(call.g.minimum_spread)
        IN  /\ call.spread < min_spread => call.result = min_spread
            /\ (min_spread <= call.spread /\ call.spread <= 5 * min_spread) =>
                  call.result = call.spread
            /\ call.spread > 5 * min_spread => call.result = 5 * min_spread
            /\ min_spread <= call.result /\ call.result <= 5 * min_spread

C6_Witness ==
    /\ call.fn = "corrected_spread"
    /\ bps_to_decimal(call.g.minimum_spread) = 40
    /\ call.spread = 400
    /\ call.result = 200

\* C7 (as claimed): for mid > 0, spread > 0, skew in [-1, 1] and any aggressiveness,
\* every bid of the ladder is strictly below mid and every ask strictly above it,
\* before and after the rounding to the tick size.
C7_NeverCrossesMid ==
    (/\ GenerateReturned
     /\ call.g.mid > 0
     /\ ValidSignal(call.skew, call.spread)) =>
        LET q == call.result.quotes
            a == CallArrays
        IN  /\ \A j \in 1..Len(q) :
                  IF q[j].side = Bid THEN FLt(q[j].price, call.g.mid)
                                     ELSE FGt(q[j].price, call.g.mid)
            /\ \A k \in 1..Len(a.bid_prices) : FLt(a.bid_prices[k], call.g.mid)
            /\ \A k \in 1..Len(a.ask_prices) : FGt(a.ask_prices[k], call.g.mid)

\* C8 (as claimed): in the non-positive-skew branch, for skew in [-1, 0], the number
\* whose square root scales the aggressiveness is non-negative.
C8_RadicandNonNegative ==
    (/\ call.fn = "generate_quotes"
     /\ call.branch = "negative"
     /\ call.skew >= 0 - SCALE) =>
        call.radicand >= 0

\* C9 (as claimed): the plain size ratio r = 0.5 + clip(skew, 0, 0.5) of either
\* branch satisfies 0.5 <= r < 1.
C9_RatioBelowOne ==
    (call.fn = "generate_quotes" /\ call.branch # "none") =>
        (call.clipped_r >= SCALE \div 2 /\ call.clipped_r < SCALE)

\* C9 (amended): the plain size ratio r of either branch satisfies 0.5 <= r <= 1,
\* and r is exactly 1 when and only when skew >= 0.5.
C9_RatioAtMostOne ==
    (call.fn = "generate_quotes" /\ call.branch # "none") =>
        /\ call.clipped_r >= SCALE \div 2
        /\ call.clipped_r <= SCALE
        /\ (call.clipped_r = SCALE) <=> (call.skew >= SCALE \div 2)

C9_Witness ==
    /\ call.fn = "generate_quotes"
    /\ call.branch = "positive"
    /\ call.skew = 64
    /\ call.clipped_r = SCALE

====
